---- MODULE Spec2Model ----
(***************************************************************************)
(* The dual-instance speech recognition page of                            *)
(* modules/speech_handler_v2.py (the script of get_html_content): two      *)
(* webkitSpeechRecognition instances A and B, the recurring switch timer,  *)
(* the overlap (handoff) timeout, the restart timeout, the transcript      *)
(* buffer and the sink (GET /transcript).                                  *)
(*                                                                         *)
(* The page runs on one event loop: every action below is one callback or  *)
(* one command run to completion.  The recognition engine and the timer    *)
(* queue are the browser's; they are modelled by what the Web Speech API   *)
(* and setTimeout/setInterval do.                                          *)
(***************************************************************************)
EXTENDS Integers, Sequences, FiniteSets, TLC

VARIABLES
    isRecording,      \* let isRecording
    finalText,        \* let finalText: the segments appended, oldest first
    wordCount,        \* let wordCount
    activeInstance,   \* let activeInstance
    switchTimer,      \* let switchTimer: handle of the last setInterval, 0 null
    instanceSwitches, \* let instanceSwitches
    created,          \* recognitionA / recognitionB are non-null
    lastResultIndex,  \* recognition.lastResultIndex of A and of B
    engine,           \* the engine session behind each instance
    timers,           \* the browser's pending timers, next to fire first
    nextHandle,       \* the handle the next setInterval returns
    sink,             \* the texts handed to fetch('/transcript?text=...')
    rejected,         \* history: the request of a submitted segment has
                      \* failed
    retired,          \* history: instances a handoff called stop() on and
                      \* that have not ended since
    heard,            \* history: results the engine has produced so far
    budget,           \* the sessions and results the engine is allowed in
                      \* this run and the transcripts it may recognise;
                      \* never changes
    single,           \* the page of the single-instance handler
                      \* (speech_handler.py): its variables, its status
                      \* display, its engine session and its timers
    host,             \* the Python side: the HTTP server, the application's
                      \* recording state, the clipboard and the browser pages
    shown             \* the transcript element of the dual-instance page:
                      \* the final text and the interim text it displays.
                      \* The script writes it and never reads it; it is
                      \* followed in the runs with budget.shown and stays
                      \* blank in the others

vars == <<isRecording, finalText, wordCount, activeInstance, switchTimer,
          instanceSwitches, created, lastResultIndex, engine, timers,
          nextHandle, sink, rejected, retired, heard, budget, single, host,
          shown>>

\* the variables of the dual-instance page
dual == <<isRecording, finalText, wordCount, activeInstance, switchTimer,
          instanceSwitches, created, lastResultIndex, engine, timers,
          nextHandle, sink, rejected, retired, heard, shown>>

Inst == {"A", "B"}

Other(x) == IF x = "A" THEN "B" ELSE "A"

\* CONFIG of the page
MaxSessionTime == 55000
OverlapTime == 2000
MinRestartDelay == 50

\* Bounds of the model: the engine sessions opened over both instances and
\* the results the engine produces over all sessions, in Spec, in SpecLong,
\* in SpecWords and in SpecQuiet
MaxSess == 2
MaxHeard == 2
LongSess == 3
LongHeard == 1
WordsSess == 2
WordsHeard == 1
QuietSess == 2
QuietHeard == 1
ShownSess == 2
ShownHeard == 1

\* Transcripts the engine may recognise, as character sequences
Transcripts == {<<"a", " ", "b">>}

\* Every transcript of at most MaxLen characters over a letter and the space
MaxLen == 3
Alphabet == {"a", " "}
Texts == UNION {[1..n -> Alphabet] : n \in 0..MaxLen}

\* Error codes the engine may report through onerror
ErrorCodes == {"network", "not-allowed"}

----------------------------------------------------------------------------
\* String helper: transcript.split(' ').length

RECURSIVE SplitLength(_)
SplitLength(t) ==
    IF t = <<>> THEN 1
    ELSE (IF Head(t) = " " THEN 1 ELSE 0) + SplitLength(Tail(t))

----------------------------------------------------------------------------
\* The recognition engine (webkitSpeechRecognition) behind one instance

IdleEngine == [st |-> "idle", sess |-> 0, results |-> <<>>, err |-> "none"]

\* start() throws InvalidStateError unless the instance has no open session
StartThrows(e) == e.st # "idle"

EngStart(e) ==
    [st |-> "listening", sess |-> e.sess + 1, results |-> <<>>, err |-> "none"]

\* a faulty stop(), which aborts the session when it is called twice
StopThenAbort(e) ==
    CASE e.st = "listening" -> [e EXCEPT !.st = "stopping"]
      [] e.st = "stopping" -> [e EXCEPT !.st = "failed", !.err = "aborted"]
      [] OTHER -> e

\* stop(): the engine flushes what it has heard and then ends; no-op otherwise
EngStop(e) == IF e.st = "listening" THEN [e EXCEPT !.st = "stopping"] ELSE e

Open(e) == e.st # "idle"

\* the engine opens at most budget.sess sessions in one run
SessionsLeft == engine["A"].sess + engine["B"].sess < budget.sess

MayStart(x) == StartThrows(engine[x]) \/ SessionsLeft

----------------------------------------------------------------------------
\* The browser's timer queue, next to fire first.  Each pending timer keeps
\* the rank `at` of the instant it was armed among the pending ones (timers
\* armed by one callback share a rank).  A timer armed now with delay d fires
\* after every pending timer whose delay is at most d.  It may fire after a
\* pending timer q[i] with a longer delay only if q[i] can be that close to
\* its deadline: every timer armed no later than q[i] and still pending must
\* have a delay above Delay(q[i]) - d.

Delay(t) ==
    CASE t.kind = "switch" -> MaxSessionTime
      [] t.kind = "handoff" -> OverlapTime
      [] t.kind = "restart" -> MinRestartDelay

\* setInterval(..., CONFIG.maxSessionTime) of startRec
SwitchTimerRec(id, at) ==
    [kind |-> "switch", id |-> id, old |-> "-", new |-> "-", at |-> at]

\* setTimeout(..., CONFIG.overlapTime) of switchInstances
HandoffTimerRec(old, new, at) ==
    [kind |-> "handoff", id |-> 0, old |-> old, new |-> new, at |-> at]

\* setTimeout(..., CONFIG.minRestartDelay) of onend
RestartTimerRec(x, at) ==
    [kind |-> "restart", id |-> 0, old |-> x, new |-> x, at |-> at]

\* the rank of the present instant
Now(q) == 1 + Cardinality({q[i].at : i \in 1..Len(q)})

\* ranks renumbered 1..k after timers have fired or were cleared
Normalize(q) ==
    [i \in 1..Len(q) |->
        [q[i] EXCEPT !.at = Cardinality({q[j].at : j \in 1..Len(q)}
                                           \cap 0..q[i].at)]]

InsertAt(q, p, t) == SubSeq(q, 1, p) \o <<t>> \o SubSeq(q, p + 1, Len(q))

CanFollow(q, i, t) ==
    \A j \in 1..Len(q) :
        q[j].at <= q[i].at => Delay(q[j]) > Delay(q[i]) - Delay(t)

ValidPos(q, t) ==
    {p \in 0..Len(q) :
        \A i \in 1..Len(q) :
            /\ i <= p => (Delay(q[i]) <= Delay(t) \/ CanFollow(q, i, t))
            /\ i > p => Delay(q[i]) > Delay(t)}

\* clearInterval(handle)
ClearInterval(q, h) ==
    Normalize(SelectSeq(q, LAMBDA t : ~(t.kind = "switch" /\ t.id = h)))

----------------------------------------------------------------------------
\* the page after load
\* the single-instance page after window.onload: init() has run and the
\* pre-warm timeout is pending; no handle is held (0 is null)
SingleLoaded ==
    [isRecording |-> FALSE, isRestarting |-> FALSE, restartCount |-> 0,
     sessionStartTime |-> FALSE, restartTimer |-> 0,
     periodicRestartTimer |-> 0, status |-> "ready", engine |-> "idle",
     sess |-> 0, timers |-> {[kind |-> "prewarm", id |-> 1]},
     nextHandle |-> 2]

\* a request URL: its path, whether a "?" follows it, and the key=value
\* pairs of the query string
Bare(p) == [path |-> p, hasQuery |-> FALSE, query |-> <<>>]

Url(p, q) == [path |-> p, hasQuery |-> TRUE, query |-> q]

\* a request slot no client is using
FreeSlot ==
    [st |-> "free", url |-> Bare(""), code |-> 0, body |-> "", calls |-> 0,
     pasted |-> "", kept |-> FALSE]

\* a call of a function wrapped by ErrorHandler.retry(max_attempts, delay,
\* exceptions, fallback), on entry of the wrapper: the decorator's arguments
\* (0 for None, fallback TRUE when one is given), the loop's attempt, the
\* calls of the function and the waits so far, and how the call has ended
RetryEntered(max_attempts, delay, fallback) ==
    [max_attempts |-> max_attempts, delay |-> delay, fallback |-> fallback,
     attempt |-> 0, calls |-> 0, slept |-> <<>>, last_error |-> "none",
     result |-> "running"]

\* SpeechServer.start under @with_retry(exceptions=(OSError, ServerError)),
\* after its first call has returned
StartReturned ==
    [RetryEntered(0, 0, FALSE) EXCEPT !.calls = 1, !.result = "returned"]

\* the threads that call GoogleSpeechApp.toggle_recording: the listener of
\* the keyboard library (the hotkey) and the tray icon's menu thread
Threads == {"hotkey", "tray"}

\* a thread outside toggle_recording; inside, pc is the statement it executes
\* next, `loaded` the value its load of is_recording gave and `ret` the
\* local is_recording
Outside == [pc |-> "idle", loaded |-> FALSE, ret |-> FALSE]

\* the Python side after GoogleSpeechApp.start(): the server is running,
\* the recording state (is_recording of the SpeechHandlerV2, of the
\* SpeechServer and of the TrayIcon) is off, no page is open and no thread
\* is in toggle_recording
HostStarted ==
    [is_running |-> TRUE,
     is_recording |-> [handler |-> FALSE, server |-> FALSE, tray |-> FALSE],
     clipboard |-> "", reqs |-> <<>>, pages |-> <<>>, faulted |-> FALSE,
     retry |-> StartReturned,
     threads |-> [t \in Threads |-> Outside], toggles |-> 0]

\* <div id="transcript"></div>
Blank == [final |-> <<>>, interim |-> <<>>]

\* both pages as their scripts leave them at load
PagesLoaded ==
    /\ isRecording = FALSE
    /\ finalText = <<>>
    /\ wordCount = 0
    /\ activeInstance = "A"
    /\ switchTimer = 0
    /\ instanceSwitches = 0
    /\ created = FALSE
    /\ lastResultIndex = [x \in Inst |-> 0]
    /\ engine = [x \in Inst |-> IdleEngine]
    /\ timers = <<>>
    /\ nextHandle = 1
    /\ sink = <<>>
    /\ rejected = FALSE
    /\ retired = {}
    /\ heard = 0
    /\ single = SingleLoaded
    /\ shown = Blank

Loaded ==
    /\ PagesLoaded
    /\ host = HostStarted

Init ==
    /\ Loaded
    /\ budget = [sess |-> MaxSess, heard |-> MaxHeard, texts |-> Transcripts,
                 shown |-> FALSE]

\* longer runs of the scheduler with fewer results
InitLong ==
    /\ Loaded
    /\ budget = [sess |-> LongSess, heard |-> LongHeard,
                 texts |-> Transcripts, shown |-> FALSE]

\* runs of the scheduler in which little is said
InitQuiet ==
    /\ Loaded
    /\ budget = [sess |-> QuietSess, heard |-> QuietHeard,
                 texts |-> Transcripts, shown |-> FALSE]

\* runs in which the engine may recognise any of Texts
InitWords ==
    /\ Loaded
    /\ budget = [sess |-> WordsSess, heard |-> WordsHeard, texts |-> Texts,
                 shown |-> FALSE]

\* runs in which the transcript element is observed
InitShown ==
    /\ Loaded
    /\ budget = [sess |-> ShownSess, heard |-> ShownHeard,
                 texts |-> Transcripts, shown |-> TRUE]

----------------------------------------------------------------------------
\* recognition.onresult

\* a faulty gate, which lets every instance through
GateOpen(x) == TRUE

\* a faulty gate, which closes for good once a submission has failed
GateUntilError(x) ==
    /\ ~rejected
    /\ \/ (x = "A" /\ activeInstance = "A")
       \/ (x = "B" /\ activeInstance = "B")

\* the active-instance test of onresult
Gate(x) ==
    \/ (x = "A" /\ activeInstance = "A")
    \/ (x = "B" /\ activeInstance = "B")

Segment(x, sess, i, r) == [src |-> <<x, sess, i - 1>>, text |-> r.transcript]

\* the loop of onresult over event.results, from position i on (position i
\* is the script's index i - 1)
RECURSIVE NewSegments(_, _, _, _)
NewSegments(x, sess, results, i) ==
    IF i > Len(results) THEN <<>>
    ELSE (IF results[i].isFinal /\ Gate(x)
          THEN <<Segment(x, sess, i, results[i])>>
          ELSE <<>>) \o NewSegments(x, sess, results, i + 1)

RECURSIVE WordsOf(_)
WordsOf(segs) ==
    IF segs = <<>> THEN 0
    ELSE SplitLength(Head(segs).text) + WordsOf(Tail(segs))

\* a faulty cursor, which is never advanced
KeepCursor(x, results) == lastResultIndex

\* a faulty cursor, which is advanced only by the active instance
AdvanceIfActive(x, results) ==
    IF x = activeInstance
    THEN [lastResultIndex EXCEPT ![x] = Len(results)]
    ELSE lastResultIndex

\* recognition.lastResultIndex = event.results.length
AdvanceCursor(x, results) == [lastResultIndex EXCEPT ![x] = Len(results)]

\* what the engine may do to its cumulative result list before it calls
\* onresult: add an interim result, replace the trailing interim by its next
\* guess or make it final at the same index, or add one or two final results
Deliveries(e) ==
    LET rs == e.results
        n == Len(rs)
        tailFinal == n = 0 \/ rs[n].isFinal
    IN  {Append(rs, [isFinal |-> FALSE, transcript |-> t]) :
            t \in {u \in budget.texts : tailFinal /\ heard < budget.heard
                                        /\ e.st = "listening"}}
        \cup
        {[rs EXCEPT ![n] = [isFinal |-> FALSE, transcript |-> t]] :
            t \in {u \in budget.texts : ~tailFinal /\ e.st = "listening"}}
        \cup
        {[rs EXCEPT ![n] = [isFinal |-> TRUE, transcript |-> t]] :
            t \in {u \in budget.texts : ~tailFinal}}
        \cup
        {Append(rs, [isFinal |-> TRUE, transcript |-> t]) :
            t \in {u \in budget.texts : tailFinal /\ heard < budget.heard}}
        \cup
        {rs \o <<[isFinal |-> TRUE, transcript |-> t],
                 [isFinal |-> TRUE, transcript |-> t]>> :
            t \in {u \in budget.texts : tailFinal
                                        /\ heard + 2 <= budget.heard}}

\* event.resultIndex: the lowest position the engine has changed in its
\* result list (the script's index plus 1)
ResultIndex(old, new) ==
    CHOOSE i \in 1..(Len(new) + 1) :
        /\ \A j \in 1..(i - 1) : j <= Len(old) /\ old[j] = new[j]
        /\ i <= Len(new) => (i > Len(old) \/ old[i] # new[i])

\* the loop of onresult from event.resultIndex on: the transcript of the last
\* result that is not final, '' when there is none
Interim(rs, i) ==
    LET open == {j \in i..Len(rs) : ~rs[j].isFinal}
    IN  IF open = {} THEN <<>>
        ELSE rs[CHOOSE j \in open : \A k \in open : k <= j].transcript

\* a faulty display, which adds the interim text to the one before
ShowAppended(x, final, rs, i) ==
    IF Gate(x)
    THEN [final |-> final, interim |-> shown.interim \o Interim(rs, i)]
    ELSE shown

\* the update of the transcript element, by the active instance only
Show(x, final, rs, i) ==
    IF Gate(x)
    THEN [final |-> final, interim |-> Interim(rs, i)]
    ELSE shown

OnResult(x) ==
    /\ engine[x].st \in {"listening", "stopping"}
    /\ \E rs \in Deliveries(engine[x]) :
         LET segs == NewSegments(x, engine[x].sess, rs,
                                 lastResultIndex[x] + 1)
         IN  /\ engine' = [engine EXCEPT ![x].results = rs]
             /\ finalText' = finalText \o segs
             /\ wordCount' = wordCount + WordsOf(segs)
             /\ sink' = sink \o segs
             /\ lastResultIndex' = AdvanceCursor(x, rs)
             /\ heard' = heard + Len(rs) - Len(engine[x].results)
             /\ shown' = IF budget.shown
                         THEN Show(x, finalText \o segs, rs,
                                   ResultIndex(engine[x].results, rs))
                         ELSE shown
    /\ UNCHANGED <<isRecording, activeInstance, switchTimer, instanceSwitches,
                   created, timers, nextHandle, retired, budget, single, host,
                   rejected>>

----------------------------------------------------------------------------
\* fetch(...).catch of onresult: the request of a submitted segment fails
\* and the handler writes a debug line

FetchCatch ==
    /\ sink # <<>>
    /\ rejected' = TRUE
    /\ UNCHANGED <<isRecording, finalText, wordCount, activeInstance,
                   switchTimer, instanceSwitches, created, lastResultIndex,
                   engine, timers, nextHandle, sink, retired, heard, budget,
                   single, host, shown>>

----------------------------------------------------------------------------
\* recognition.onerror: the handler only writes a debug line

OnError(x, code) ==
    /\ engine[x].st \in {"listening", "stopping"}
    /\ engine' = [engine EXCEPT ![x].st = "failed", ![x].err = code]
    /\ UNCHANGED <<isRecording, finalText, wordCount, activeInstance,
                   switchTimer, instanceSwitches, created, lastResultIndex,
                   timers, nextHandle, sink, retired, heard, budget,
                   single, host, shown,
                   rejected>>

----------------------------------------------------------------------------
\* recognition.onend

\* a restart test that gives up after the instance's first session
RestartWantedOnce(x) ==
    isRecording /\ x = activeInstance /\ engine[x].sess < 2

\* the test that decides whether onend schedules a restart
RestartWanted(x) == isRecording /\ x = activeInstance

OnEnd(x) ==
    /\ Open(engine[x])
    /\ engine' = [engine EXCEPT ![x].st = "idle", ![x].results = <<>>,
                                ![x].err = "none"]
    /\ retired' = retired \ {x}
    /\ IF RestartWanted(x)
       THEN LET r == RestartTimerRec(x, Now(timers))
            IN  \E p \in ValidPos(timers, r) :
                   timers' = InsertAt(timers, p, r)
       ELSE timers' = timers
    /\ UNCHANGED <<isRecording, finalText, wordCount, activeInstance,
                   switchTimer, instanceSwitches, created, lastResultIndex,
                   nextHandle, sink, heard, budget, single, host, shown,
                   rejected>>

\* a faulty restart, which starts the other instance
RestartOther(t) == Other(t.old)

\* the instance the setTimeout callback of onend starts
RestartTarget(t) == t.old

\* a restart callback that arms one more attempt when start() throws
RestartTimerRetry ==
    /\ timers # <<>>
    /\ Head(timers).kind = "restart"
    /\ LET x == Head(timers).old
           rest == Normalize(Tail(timers))
           r == RestartTimerRec(x, Now(rest))
       IN  IF isRecording /\ ~StartThrows(engine[x])
           THEN /\ SessionsLeft
                /\ engine' = [engine EXCEPT ![x] = EngStart(engine[x])]
                /\ timers' = rest
           ELSE /\ engine' = engine
                /\ \E p \in ValidPos(rest, r) :
                      timers' = InsertAt(rest, p, r)
    /\ UNCHANGED <<isRecording, finalText, wordCount, activeInstance,
                   switchTimer, instanceSwitches, created, lastResultIndex,
                   nextHandle, sink, retired, heard, budget,
                   single, host, shown, rejected>>

RestartTimerFire ==
    /\ timers # <<>>
    /\ Head(timers).kind = "restart"
    /\ LET x == RestartTarget(Head(timers))
       IN  /\ timers' = Normalize(Tail(timers))
           /\ IF isRecording /\ ~StartThrows(engine[x])
              THEN /\ SessionsLeft
                   /\ engine' = [engine EXCEPT ![x] = EngStart(engine[x])]
              ELSE engine' = engine
    /\ UNCHANGED <<isRecording, finalText, wordCount, activeInstance,
                   switchTimer, instanceSwitches, created, lastResultIndex,
                   nextHandle, sink, rejected, retired, heard, budget,
                   single, host, shown>>

----------------------------------------------------------------------------
\* switchInstances, called by the setInterval callback of startRec

\* retiring by abort(): the engine drops what it has heard, reports
\* 'aborted' and ends
RetireByAbort(e) ==
    IF e.st \in {"listening", "stopping"}
    THEN [e EXCEPT !.st = "failed", !.err = "aborted"]
    ELSE e

\* the engine call that retires the old instance
Retire(e) == EngStop(e)

\* a faulty switch, which arms the handoff although start() has thrown
HandoffArmedAnyway(q, h) == <<h>> \o q

\* the setTimeout of the handoff follows start() inside the try: a throw
\* skips it, and the catch only logs
SkippedByThrow(q, h) == q

SwitchInstances ==
    /\ timers # <<>>
    /\ Head(timers).kind = "switch"
    /\ LET rest == Normalize(Tail(timers))
           t == [Head(timers) EXCEPT !.at = Now(rest)]
           oldInstance == activeInstance
           newInstance == Other(activeInstance)
           h == HandoffTimerRec(oldInstance, newInstance, Now(rest))
       IN  IF isRecording /\ ~StartThrows(engine[newInstance])
           THEN /\ SessionsLeft
                /\ engine' = [engine EXCEPT
                                ![newInstance] = EngStart(engine[newInstance])]
                /\ \E p \in ValidPos(rest, h) :
                      timers' = Normalize(Append(InsertAt(rest, p, h), t))
           ELSE /\ engine' = engine
                /\ timers' = Normalize(Append(SkippedByThrow(rest, h), t))
    /\ UNCHANGED <<isRecording, finalText, wordCount, activeInstance,
                   switchTimer, instanceSwitches, created, lastResultIndex,
                   nextHandle, sink, rejected, retired, heard, budget,
                   single, host, shown>>

\* the setTimeout callback of switchInstances
HandoffTimerFire ==
    /\ timers # <<>>
    /\ Head(timers).kind = "handoff"
    /\ LET h == Head(timers)
       IN  /\ timers' = Normalize(Tail(timers))
           /\ activeInstance' = h.new
           /\ instanceSwitches' = instanceSwitches + 1
           /\ engine' = [engine EXCEPT ![h.old] = Retire(engine[h.old])]
           /\ retired' = IF Open(engine[h.old])
                         THEN retired \cup {h.old} ELSE retired
    /\ UNCHANGED <<isRecording, finalText, wordCount, switchTimer, created,
                   lastResultIndex, nextHandle, sink, heard, budget,
                   single, host, shown, rejected>>

----------------------------------------------------------------------------
\* startRec, stopRec, clearText

StartRec ==
    /\ MayStart("A")
    /\ created' = TRUE
    /\ isRecording' = TRUE
    /\ activeInstance' = "A"
    /\ instanceSwitches' = 0
    /\ IF StartThrows(engine["A"])
       THEN UNCHANGED <<engine, switchTimer, timers, nextHandle>>
       ELSE /\ engine' = [engine EXCEPT !["A"] = EngStart(engine["A"])]
            /\ switchTimer' = nextHandle
            /\ timers' = Append(timers,
                                 SwitchTimerRec(nextHandle, Now(timers)))
            /\ nextHandle' = nextHandle + 1
    /\ UNCHANGED <<finalText, wordCount, lastResultIndex, sink, retired,
                   heard, budget, single, host, shown,
                   rejected>>

StopRec ==
    /\ isRecording' = FALSE
    /\ timers' = ClearInterval(timers, switchTimer)
    /\ engine' = IF created
                 THEN [x \in Inst |-> EngStop(engine[x])]
                 ELSE engine
    /\ UNCHANGED <<finalText, wordCount, activeInstance, switchTimer,
                   instanceSwitches, created, lastResultIndex, nextHandle,
                   sink, retired, heard, budget, single, host, shown,
                   rejected>>

\* a faulty clear, which resets the switch statistics as well
ClearAll ==
    /\ finalText' = <<>>
    /\ wordCount' = 0
    /\ instanceSwitches' = 0
    /\ shown' = Blank
    /\ UNCHANGED <<isRecording, activeInstance, switchTimer, created,
                   lastResultIndex, engine, timers, nextHandle, sink,
                   retired, heard, budget, single, host,
                   rejected>>

ClearText ==
    /\ finalText' = <<>>
    /\ wordCount' = 0
    /\ shown' = Blank
    /\ UNCHANGED <<isRecording, activeInstance, switchTimer, instanceSwitches,
                   created, lastResultIndex, engine, timers, nextHandle, sink,
                   retired, heard, budget, single, host,
                   rejected>>

----------------------------------------------------------------------------
Next ==
    \/ StartRec
    \/ StopRec
    \/ ClearText
    \/ SwitchInstances
    \/ HandoffTimerFire
    \/ RestartTimerFire
    \/ \E x \in Inst : OnResult(x)
    \/ FetchCatch
    \/ \E x \in Inst, code \in ErrorCodes : OnError(x, code)
    \/ \E x \in Inst : OnEnd(x)

Spec == Init /\ [][Next]_vars

SpecLong == InitLong /\ [][Next]_vars

SpecWords == InitWords /\ [][Next]_vars

SpecQuiet == InitQuiet /\ [][Next]_vars

SpecShown == InitShown /\ [][Next]_vars

----------------------------------------------------------------------------
\* The single-instance handler (speech_handler.py): one recognition object,
\* restarted by a periodic timer. The engine session is "idle", "starting"
\* (start() accepted, onstart to come), "listening" or "ending" (onend to
\* come). The timers are a set: their delays are independent settings, and
\* any pending timer may be the next to fire.

SingleSess == 3
MaxRestarts == 2

SingleErrors == {"network", "no-speech"}

InitSingle ==
    /\ Loaded
    /\ budget = [sess |-> SingleSess, restarts |-> MaxRestarts]

\* a faulty clearTimeout / clearInterval, which clears nothing
KeepTimers(ts, h) == ts

\* clearTimeout(h), clearInterval(h)
ClearTimer(ts, h) == {t \in ts : t.id # h}

\* clearTimeout(restartTimer); clearInterval(periodicRestartTimer)
ClearBoth(s) ==
    ClearTimer(ClearTimer(s.timers, s.restartTimer), s.periodicRestartTimer)

\* recognition.start() inside try/catch: it throws unless the engine is idle,
\* and the catch only logs
SingleStart(s) ==
    IF s.engine = "idle"
    THEN [s EXCEPT !.engine = "starting", !.sess = @ + 1]
    ELSE s

\* recognition.stop(), recognition.abort(): nothing without a session
SingleHalt(e) == IF e \in {"starting", "listening"} THEN "ending" ELSE e

\* the engine has a session left for a start() that would be accepted
SingleMayStart(s) == s.engine = "idle" => s.sess < budget.sess

SingleStartRec ==
    /\ SingleMayStart(single)
    /\ single' = SingleStart([single EXCEPT !.isRecording = TRUE])
    /\ UNCHANGED <<dual, budget, host>>

SingleStopRec ==
    /\ single' = [single EXCEPT !.isRecording = FALSE,
                                !.timers = ClearBoth(single),
                                !.engine = SingleHalt(@)]
    /\ UNCHANGED <<dual, budget, host>>

\* recognition.onstart
SingleOnStart ==
    /\ single.engine = "starting"
    /\ single' = [single EXCEPT
                    !.engine = "listening",
                    !.status = "listening",
                    !.sessionStartTime = TRUE,
                    !.timers = ClearBoth(single)
                                 \cup {[kind |-> "periodic",
                                        id |-> single.nextHandle]},
                    !.periodicRestartTimer = single.nextHandle,
                    !.nextHandle = @ + 1]
    /\ UNCHANGED <<dual, budget, host>>

\* the callback of periodicRestartTimer; the interval stays armed
PeriodicRestart ==
    \E t \in single.timers :
       /\ t.kind = "periodic"
       /\ IF single.isRecording /\ ~single.isRestarting
          THEN /\ single.restartCount < budget.restarts
               /\ single' = [single EXCEPT !.restartCount = @ + 1,
                                           !.isRestarting = TRUE,
                                           !.engine = SingleHalt(@)]
          ELSE UNCHANGED single
       /\ UNCHANGED <<dual, budget, host>>

\* recognition.onerror with an error of the engine (never 'aborted', which
\* the handler ignores); onend follows
SingleOnError(code) ==
    /\ single.engine \in {"starting", "listening"}
    /\ single' = IF single.isRecording /\ code # "aborted"
                 THEN [single EXCEPT
                         !.engine = "ending",
                         !.timers = ClearBoth(single)
                                      \cup {[kind |-> "restart",
                                             id |-> single.nextHandle]},
                         !.restartTimer = single.nextHandle,
                         !.nextHandle = @ + 1]
                 ELSE [single EXCEPT !.engine = "ending"]
    /\ UNCHANGED <<dual, budget, host>>

\* recognition.onend: the session is over, by stop(), abort(), an error or
\* the engine's own decision. The engine has ended when the handler runs, so
\* the start() of the instant restart is accepted and its catch is not taken.
SingleOnEnd ==
    /\ single.engine \in {"listening", "ending"}
    /\ (single.isRecording /\ single.isRestarting)
          => single.sess < budget.sess
    /\ LET s == [single EXCEPT !.engine = "idle", !.timers = ClearBoth(single)]
       IN  single' =
             IF s.isRecording
             THEN IF s.isRestarting
                  THEN SingleStart([s EXCEPT !.isRestarting = FALSE])
                  ELSE [s EXCEPT !.timers = @ \cup {[kind |-> "unexpected",
                                                    id |-> s.nextHandle]},
                                 !.nextHandle = @ + 1]
             ELSE [s EXCEPT !.status = "stopped",
                            !.isRestarting = FALSE,
                            !.restartCount =
                                IF s.sessionStartTime THEN 0 ELSE @,
                            !.sessionStartTime = FALSE]
    /\ UNCHANGED <<dual, budget, host>>

\* a faulty timeout callback, which starts the engine without a test
NoRecheck(s) == TRUE

\* `if (isRecording)` of the timeout callbacks
StillRecording(s) == s.isRecording

\* the timeouts armed by onerror (restartTimer) and by onend after an
\* unexpected end: start again if still recording
RestartTimeoutFire ==
    \E t \in single.timers :
       /\ t.kind \in {"restart", "unexpected"}
       /\ single.isRecording => SingleMayStart(single)
       /\ LET s == [single EXCEPT !.timers = @ \ {t}]
          IN  single' = IF StillRecording(s) THEN SingleStart(s) ELSE s
       /\ UNCHANGED <<dual, budget, host>>

\* the pre-warm timeout of window.onload: start the engine while not
\* recording and arm the abort, unless start() throws
PrewarmFire ==
    \E t \in single.timers :
       /\ t.kind = "prewarm"
       /\ ~single.isRecording => SingleMayStart(single)
       /\ LET s == [single EXCEPT !.timers = @ \ {t}]
          IN  single' =
                IF ~s.isRecording /\ s.engine = "idle"
                THEN [SingleStart(s) EXCEPT
                        !.timers = @ \cup {[kind |-> "prewarmAbort",
                                            id |-> s.nextHandle]},
                        !.nextHandle = @ + 1]
                ELSE s
       /\ UNCHANGED <<dual, budget, host>>

\* the timeout that ends the pre-warm session
PrewarmAbortFire ==
    \E t \in single.timers :
       /\ t.kind = "prewarmAbort"
       /\ single' = [single EXCEPT
                       !.timers = @ \ {t},
                       !.engine = IF single.isRecording THEN @
                                  ELSE SingleHalt(@)]
       /\ UNCHANGED <<dual, budget, host>>

NextSingle ==
    \/ SingleStartRec
    \/ SingleStopRec
    \/ SingleOnStart
    \/ PeriodicRestart
    \/ \E code \in SingleErrors : SingleOnError(code)
    \/ SingleOnEnd
    \/ RestartTimeoutFire
    \/ PrewarmFire
    \/ PrewarmAbortFire

SpecSingle == InitSingle /\ [][NextSingle]_vars

\* The server's html_provider is the page of one handler or of the other
InitEither ==
    /\ Loaded
    /\ budget \in {[page |-> "dual", sess |-> QuietSess,
                     heard |-> QuietHeard, texts |-> Transcripts,
                     shown |-> FALSE],
                    [page |-> "single", sess |-> SingleSess,
                     restarts |-> MaxRestarts]}

NextEither ==
    \/ budget.page = "dual" /\ Next
    \/ budget.page = "single" /\ NextSingle

SpecEither == InitEither /\ [][NextEither]_vars

----------------------------------------------------------------------------
\* The Python side (server.py, main.py and the process_transcript of
\* speech_handler_v2.py): an HTTPServer that handles one request at a time
\* in its own thread, the transcript processor, which copies a text to the
\* clipboard and pastes it, and the application's recording toggle, which
\* opens browser pages. host.reqs holds the requests of the connected
\* clients, oldest first.

MaxParams == 2
RouteReqs == 1
ServerReqs == 2
AppReqs == 1
MaxPages == 2
AppToggles == 1
MaxToggles == 2

Paths == {"/", "/transcript", "/status", "/invalid"}

Pairs == {<<"text", "">>, <<"text", "a">>, <<"action", "start">>}

Queries == UNION {[1..n -> Pairs] : n \in 0..MaxParams}

\* the URLs a client may ask for
Urls ==
    {Bare(p) : p \in Paths}
       \cup {Url(p, q) : p \in {"/", "/transcript"}, q \in Queries}

\* the URLs of clients that submit transcripts and watch the server
ServerUrls ==
    {Url("/transcript", <<<<"text", t>>>>) : t \in {"a", "b"}}
       \cup {Bare("/status"), Bare("/invalid")}

\* fetch('/transcript?text=' + encodeURIComponent(transcript))
PageUrls == {Url("/transcript", <<<<"text", "a">>>>)}

\* f"{self.server.get_url()}/?action=start"
StartUrl == Url("/", <<<<"action", "start">>>>)

\* self.server.get_url()
HomeUrl == Bare("/")

InitRoute ==
    /\ Loaded
    /\ budget = [reqs |-> RouteReqs, urls |-> Urls, pages |-> 0]

InitServer ==
    /\ Loaded
    /\ budget = [reqs |-> ServerReqs, urls |-> ServerUrls, pages |-> 0]

InitApp ==
    /\ Loaded
    /\ budget = [reqs |-> AppReqs, urls |-> PageUrls, pages |-> MaxPages,
                 toggles |-> AppToggles]

\* urllib.parse.parse_qs(query)[k]: the values of key k in order; a pair
\* with a blank value is dropped
RECURSIVE ParseQs(_, _)
ParseQs(q, k) ==
    IF q = <<>> THEN <<>>
    ELSE (IF Head(q)[1] = k /\ Head(q)[2] # ""
          THEN <<Head(q)[2]>>
          ELSE <<>>) \o ParseQs(Tail(q), k)

\* params.get('text', [''])[0]
TextOf(url) ==
    LET values == ParseQs(url.query, "text")
    IN  IF values = <<>> THEN "" ELSE values[1]

\* the branch of do_GET that a path takes
Route(url) ==
    IF url.path = "/" /\ ~url.hasQuery THEN "main"
    ELSE IF url.path = "/transcript" /\ url.hasQuery THEN "transcript"
    ELSE IF url.path = "/status" /\ ~url.hasQuery THEN "status"
    ELSE "static"

Answer(code, body) == [code |-> code, body |-> body]

\* a faulty handler, which sends nothing when an exception reaches do_GET
NoAnswer == Answer(0, "")

\* except Exception in do_GET
InternalError == Answer(500, "Internal Server Error")

\* super().do_GET(): the static file handler lists the directory for "/"
\* and calls send_error(404) for a file that does not exist; send_error
\* logs through log_message with two arguments, so args[2] raises
\* IndexError before anything is sent, and do_GET catches it
StaticFile(url) ==
    IF url.path = "/" THEN Answer(200, "listing") ELSE InternalError

\* the answer to a request that does not reach the transcript processor
Respond(url) ==
    CASE Route(url) = "main" -> Answer(200, "page")
      [] Route(url) = "status" -> Answer(200, "status")
      [] Route(url) = "transcript" ->
             Answer(400, "No transcript text provided")
      [] OTHER -> StaticFile(url)

\* safe_operation around SpeechHandlerV2.process_transcript: whether an
\* exception raised inside leaves the wrapper (graceful_degradation logs it
\* and does not raise again)
SafeOperation(raised) == FALSE

\* SpeechServer.process_transcript: False only if the processor raises
ProcessTranscript(raised) == ~SafeOperation(raised)

\* the answer of _handle_transcript after the processor was called
Processed(success) ==
    IF success THEN Answer(200, "OK")
    ELSE Answer(500, "Failed to process transcript")

\* a faulty server, which gives every request a thread of its own
ThreadPerRequest == TRUE

\* HTTPServer.serve_forever handles one request at a time
ServerFree ==
    \A r \in 1..Len(host.reqs) : host.reqs[r].st \notin {"copy", "paste"}

Finish(req, answer) ==
    [req EXCEPT !.st = "done", !.code = answer.code, !.body = answer.body]

Drop(s, i) == SubSeq(s, 1, i - 1) \o SubSeq(s, i + 1, Len(s))

\* a client sends GET url
Send(url) ==
    /\ Len(host.reqs) < budget.reqs
    /\ host' = [host EXCEPT
                  !.reqs = Append(@, [FreeSlot EXCEPT !.st = "queued",
                                                      !.url = url])]
    /\ UNCHANGED <<dual, budget, single>>

\* do_GET up to the call of the transcript processor, or to the answer of a
\* request that does not reach it
Accept(r) ==
    /\ host.is_running
    /\ ServerFree
    /\ host.reqs[r].st = "queued"
    /\ LET url == host.reqs[r].url
       IN  host' = IF Route(url) = "transcript" /\ TextOf(url) # ""
                   THEN [host EXCEPT !.reqs[r].st = "copy",
                                     !.reqs[r].calls = @ + 1]
                   ELSE [host EXCEPT !.reqs[r] = Finish(@, Respond(url))]
    /\ UNCHANGED <<dual, budget, single>>

\* pyperclip.copy(text), which may raise
Copy(r, ok) ==
    /\ host.reqs[r].st = "copy"
    /\ host' = IF ok
               THEN [host EXCEPT !.clipboard = TextOf(host.reqs[r].url),
                                 !.reqs[r].st = "paste"]
               ELSE [host EXCEPT
                       !.faulted = TRUE,
                       !.reqs[r] =
                           Finish(@, Processed(ProcessTranscript(TRUE)))]
    /\ UNCHANGED <<dual, budget, single>>

\* keyboard.press_and_release('ctrl+v') after the delay, which may raise,
\* then accumulated_text += text and the answer
Paste(r, ok) ==
    /\ host.reqs[r].st = "paste"
    /\ host' = IF ok
               THEN [host EXCEPT
                       !.reqs[r] =
                           Finish([@ EXCEPT !.pasted = host.clipboard,
                                            !.kept = TRUE],
                                  Processed(ProcessTranscript(FALSE)))]
               ELSE [host EXCEPT
                       !.faulted = TRUE,
                       !.reqs[r] =
                           Finish(@, Processed(ProcessTranscript(TRUE)))]
    /\ UNCHANGED <<dual, budget, single>>

\* the client has read the answer and closes the connection
Forget(r) ==
    /\ host.reqs[r].st = "done"
    /\ host' = [host EXCEPT !.reqs = Drop(@, r)]
    /\ UNCHANGED <<dual, budget, single>>

\* webbrowser.open(url): the browser loads the URL; the page runs the
\* script if the server answered with the main page. The script starts by
\* itself only if its own URL has action=start.
OpenPage(url) ==
    [url |-> url, script |-> Respond(url).body = "page", isRecording |-> FALSE]

\* the hotkey callback or TrayIcon._handle_toggle calls toggle_recording
ToggleCall(t) ==
    /\ host.threads[t].pc = "idle"
    /\ host.toggles < budget.toggles
    /\ host' = [host EXCEPT !.threads[t].pc = "load", !.toggles = @ + 1]
    /\ UNCHANGED <<dual, budget, single>>

\* SpeechHandlerV2.toggle_recording: the load of self.is_recording in
\* `self.is_recording = not self.is_recording`
ToggleLoad(t) ==
    /\ host.threads[t].pc = "load"
    /\ host' = [host EXCEPT !.threads[t].pc = "store",
                            !.threads[t].loaded = host.is_recording.handler]
    /\ UNCHANGED <<dual, budget, single>>

\* not self.is_recording
Flip(b) == ~b

\* SpeechHandlerV2.toggle_recording: the store of the inverted value
ToggleStore(t) ==
    /\ host.threads[t].pc = "store"
    /\ host' = [host EXCEPT
                  !.threads[t].pc = "return",
                  !.is_recording.handler = Flip(host.threads[t].loaded)]
    /\ UNCHANGED <<dual, budget, single>>

\* is_recording = self.speech_handler.toggle_recording(): the handler
\* returns self.is_recording as it is now
ToggleReturn(t) ==
    /\ host.threads[t].pc = "return"
    /\ host' = [host EXCEPT !.threads[t].pc = "server",
                            !.threads[t].ret = host.is_recording.handler]
    /\ UNCHANGED <<dual, budget, single>>

\* self.server.set_recording_state(is_recording)
SetRecordingState(t) ==
    /\ host.threads[t].pc = "server"
    /\ host' = [host EXCEPT !.threads[t].pc = "tray",
                            !.is_recording.server = host.threads[t].ret]
    /\ UNCHANGED <<dual, budget, single>>

\* self.tray_icon.update_recording_state(is_recording)
UpdateRecordingState(t) ==
    /\ host.threads[t].pc = "tray"
    /\ host' = [host EXCEPT !.threads[t].pc = "open",
                            !.is_recording.tray = host.threads[t].ret]
    /\ UNCHANGED <<dual, budget, single>>

\* if is_recording: webbrowser.open(.../?action=start); return
\* is_recording, to the hotkey listener or to _handle_toggle
ToggleOpen(t) ==
    /\ host.threads[t].pc = "open"
    /\ host.threads[t].ret => Len(host.pages) < budget.pages
    /\ host' = [host EXCEPT
                  !.threads[t] = IF t = "tray"
                                 THEN [@ EXCEPT !.pc = "assign"]
                                 ELSE Outside,
                  !.pages = IF host.threads[t].ret
                            THEN Append(@, OpenPage(StartUrl))
                            ELSE @]
    /\ UNCHANGED <<dual, budget, single>>

\* TrayIcon._handle_toggle: self.is_recording = self.on_toggle()
HandleToggleAssign(t) ==
    /\ host.threads[t].pc = "assign"
    /\ host' = [host EXCEPT !.threads[t] = Outside,
                            !.is_recording.tray = host.threads[t].ret]
    /\ UNCHANGED <<dual, budget, single>>

\* GoogleSpeechApp.toggle_recording, statement by statement, in thread t
ToggleRecording(t) ==
    \/ ToggleCall(t)
    \/ ToggleLoad(t)
    \/ ToggleStore(t)
    \/ ToggleReturn(t)
    \/ SetRecordingState(t)
    \/ UpdateRecordingState(t)
    \/ ToggleOpen(t)
    \/ HandleToggleAssign(t)

\* GoogleSpeechApp.open_web_interface
OpenWebInterface ==
    /\ Len(host.pages) < budget.pages
    /\ host' = [host EXCEPT !.pages = Append(@, OpenPage(HomeUrl))]
    /\ UNCHANGED <<dual, budget, single>>

\* startRec() of the page p, by its Start button
PageStartRec(p) ==
    /\ host.pages[p].script
    /\ host' = [host EXCEPT !.pages[p].isRecording = TRUE]
    /\ UNCHANGED <<dual, budget, single>>

\* stopRec() of the page p, by its Stop button
PageStopRec(p) ==
    /\ host.pages[p].script
    /\ host' = [host EXCEPT !.pages[p].isRecording = FALSE]
    /\ UNCHANGED <<dual, budget, single>>

\* a recording page submits a final
PageSubmit(p) ==
    /\ host.pages[p].isRecording
    /\ \E url \in budget.urls : Send(url)

NextServer ==
    \/ \E url \in budget.urls : Send(url)
    \/ \E r \in 1..Len(host.reqs) : Accept(r)
    \/ \E r \in 1..Len(host.reqs), ok \in BOOLEAN : Copy(r, ok)
    \/ \E r \in 1..Len(host.reqs), ok \in BOOLEAN : Paste(r, ok)
    \/ \E r \in 1..Len(host.reqs) : Forget(r)

NextApp ==
    \/ \E t \in Threads : ToggleRecording(t)
    \/ OpenWebInterface
    \/ \E p \in 1..Len(host.pages) : PageStartRec(p)
    \/ \E p \in 1..Len(host.pages) : PageStopRec(p)
    \/ \E p \in 1..Len(host.pages) : PageSubmit(p)
    \/ \E r \in 1..Len(host.reqs) : Accept(r)
    \/ \E r \in 1..Len(host.reqs), ok \in BOOLEAN : Copy(r, ok)
    \/ \E r \in 1..Len(host.reqs), ok \in BOOLEAN : Paste(r, ok)
    \/ \E r \in 1..Len(host.reqs) : Forget(r)

SpecRoute == InitRoute /\ [][NextServer]_vars

SpecServer == InitServer /\ [][NextServer]_vars

SpecApp == InitApp /\ [][NextApp]_vars

\* the two threads toggle, and nothing else happens
InitToggle ==
    /\ Loaded
    /\ budget = [pages |-> MaxToggles, toggles |-> MaxToggles]

NextToggle == \E t \in Threads : ToggleRecording(t)

SpecToggle == InitToggle /\ [][NextToggle]_vars

----------------------------------------------------------------------------
\* ErrorHandler.retry (error_handler.py), the decorator of SpeechServer.start

\* the largest max_attempts and delay a decorator is given (0 stands for
\* None)
MaxAttempts == 3
MaxDelay == 2

\* config.py: MAX_RETRY_ATTEMPTS and RETRY_DELAY_SECONDS
DefaultAttempts == 3
DefaultDelay == 1

\* how one call of the wrapped function ends: it returns, raises one of the
\* listed exceptions, or raises another exception
Outcomes == {"returns", "listed", "other"}

\* the server is about to be started by a wrapper with any arguments
InitRetry ==
    /\ PagesLoaded
    /\ \E m \in 0..MaxAttempts, d \in 0..MaxDelay, f \in BOOLEAN :
          host = [HostStarted EXCEPT !.is_running = FALSE,
                                     !.retry = RetryEntered(m, d, f)]
    /\ budget = [attempts |-> MaxAttempts, delay |-> MaxDelay]

\* attempts = max_attempts or config.get(..., 3)
Attempts(max_attempts) ==
    IF max_attempts # 0 THEN max_attempts ELSE DefaultAttempts

\* retry_delay = delay or config.get(..., 1)
RetryDelay(delay) == IF delay # 0 THEN delay ELSE DefaultDelay

RECURSIVE Pow2(_)
Pow2(k) == IF k = 0 THEN 1 ELSE 2 * Pow2(k - 1)

\* a faulty backoff, which waits retry_delay every time
ConstantSleep(retry_delay, attempt) == retry_delay

\* sleep_time = retry_delay * (2 ** attempt)
SleepTime(retry_delay, attempt) == retry_delay * Pow2(attempt)

\* after the loop: the fallback's result if there is a fallback, else
\* raise last_error
AllFailed(r) ==
    [r EXCEPT !.result = IF r.fallback THEN "fallback" ELSE "raised"]

\* one pass of `for attempt in range(attempts)`, with the code after the
\* loop when it was the last pass
RetryAttempt(outcome) ==
    /\ host.retry.result = "running"
    /\ host.retry.attempt < Attempts(host.retry.max_attempts)
    /\ LET r == [host.retry EXCEPT !.calls = @ + 1]
           attempts == Attempts(r.max_attempts)
           retry_delay == RetryDelay(r.delay)
           failed == [r EXCEPT !.last_error = "listed", !.attempt = @ + 1]
       IN  host' =
             CASE outcome = "returns" ->
                    [host EXCEPT !.retry = [r EXCEPT !.result = "returned"],
                                 !.is_running = TRUE]
               [] outcome = "other" ->
                    [host EXCEPT !.retry = [r EXCEPT !.result = "propagated"]]
               [] outcome = "listed" ->
                    [host EXCEPT !.retry =
                       IF r.attempt < attempts - 1
                       THEN [failed EXCEPT
                               !.slept = Append(@, SleepTime(retry_delay,
                                                             r.attempt))]
                       ELSE AllFailed(failed)]
    /\ UNCHANGED <<dual, budget, single>>

NextRetry == \E outcome \in Outcomes : RetryAttempt(outcome)

SpecRetry == InitRetry /\ [][NextRetry]_vars

----------------------------------------------------------------------------
\* Helpers of the properties

\* the elements a step added at the end of a sequence
Grown(s, t) == SubSeq(t, Len(s) + 1, Len(t))

Pending(q, kind) == {i \in 1..Len(q) : q[i].kind = kind}

PendingFor(q, kind, x) == {i \in 1..Len(q) : q[i].kind = kind /\ q[i].old = x}

HasFinal(rs) == \E i \in 1..Len(rs) : rs[i].isFinal

\* the results of x that this step made final (new, or interim before), as
\* the segments they are, in index order
RECURSIVE FreshFinals(_, _, _, _, _)
FreshFinals(x, sess, old, new, i) ==
    IF i > Len(new) THEN <<>>
    ELSE (IF new[i].isFinal /\ (i > Len(old) \/ ~old[i].isFinal)
          THEN <<Segment(x, sess, i, new[i])>>
          ELSE <<>>) \o FreshFinals(x, sess, old, new, i + 1)

FreshOf(x) ==
    IF engine'[x].sess = engine[x].sess
    THEN FreshFinals(x, engine[x].sess, engine[x].results,
                     engine'[x].results, 1)
    ELSE <<>>

----------------------------------------------------------------------------
\* C1: a final result is appended to finalText, counted in wordCount and
\* submitted to the sink only by a callback of the instance that is
\* activeInstance when the callback runs; a not yet active instance adds
\* nothing.
C1_GateActiveOnly ==
    [][ /\ \A k \in 1..Len(Grown(sink, sink')) :
              Grown(sink, sink')[k].src[1] = activeInstance
        /\ \A k \in 1..Len(Grown(finalText, finalText')) :
              Grown(finalText, finalText')[k].src[1] = activeInstance
        /\ wordCount' > wordCount => Grown(sink, sink') # <<>>
        /\ \A x \in Inst :
              (x # activeInstance /\ engine'[x].results # engine[x].results)
                 => /\ sink' = sink
                    /\ finalText' = finalText
                    /\ wordCount' = wordCount ]_vars

\* during an overlap B has delivered a final that was not taken, and A's was
C1_Witness ==
    /\ isRecording
    /\ activeInstance = "A"
    /\ \E i \in Pending(timers, "handoff") : timers[i].new = "B"
    /\ HasFinal(engine["B"].results)
    /\ lastResultIndex["B"] = Len(engine["B"].results)
    /\ Len(sink) = 1
    /\ sink[1].src[1] = "A"

\* C2: each final result (instance, session, index) is submitted to the sink
\* at most once, and the sink receives the segments in the order they are
\* appended to finalText, which is the order of their indices in the session.
C2_AtMostOnceInOrder ==
    /\ \A i, j \in 1..Len(sink) : i < j => sink[i].src # sink[j].src
    /\ \A i, j \in 1..Len(sink) :
          (i < j /\ sink[i].src[1] = sink[j].src[1]
                 /\ sink[i].src[2] = sink[j].src[2])
             => sink[i].src[3] < sink[j].src[3]
    /\ Len(finalText) <= Len(sink)
    /\ finalText = SubSeq(sink, Len(sink) - Len(finalText) + 1, Len(sink))

\* two finals of one session were submitted by two callbacks, the second
\* carrying the first again
C2_Witness ==
    /\ Len(sink) = 2
    /\ sink[1].src = <<"A", 1, 0>>
    /\ sink[2].src = <<"A", 1, 1>>
    /\ finalText = sink
    /\ Len(engine["A"].results) = 2

\* C3: while x is the active instance, the text appended to finalText is
\* exactly the finals x delivers, in order, each once: every result that a
\* callback of the active instance makes final is appended by that callback.
C3_AllFinalsAppended ==
    [][ \A x \in Inst :
           (x = activeInstance /\ engine'[x].results # engine[x].results)
              => /\ Grown(finalText, finalText') = FreshOf(x)
                 /\ Grown(sink, sink') = FreshOf(x) ]_vars

\* C4: switchCount increases only by a completed switch, by exactly 1, and
\* then activeInstance changes to the other identity.
C4_SwitchAlternates ==
    [][ /\ HandoffTimerFire =>
              /\ activeInstance' = Other(activeInstance)
              /\ instanceSwitches' = instanceSwitches + 1
        /\ instanceSwitches' > instanceSwitches =>
              /\ instanceSwitches' = instanceSwitches + 1
              /\ activeInstance' = Other(activeInstance) ]_vars

\* C5: the switch timer starts the other instance and leaves activeInstance;
\* the handoff timer, armed only by a switch that started the new instance,
\* sets activeInstance to the new instance, adds 1 to switchCount and calls
\* stop(), not abort(), on the old one; nothing else but start() changes
\* activeInstance, and nothing else but stop() stops a listening instance.
C5_SwitchThenHandoff ==
    [][ /\ (isRecording /\ SwitchInstances) =>
              /\ activeInstance' = activeInstance
              /\ Open(engine'[Other(activeInstance)])
              /\ engine'[activeInstance] = engine[activeInstance]
        /\ Cardinality(Pending(timers', "handoff"))
              > Cardinality(Pending(timers, "handoff")) =>
              /\ SwitchInstances
              /\ isRecording
              /\ engine[Other(activeInstance)].st = "idle"
              /\ engine'[Other(activeInstance)].st = "listening"
              /\ \E i \in Pending(timers', "handoff") :
                    /\ timers'[i].old = activeInstance
                    /\ timers'[i].new = Other(activeInstance)
        /\ HandoffTimerFire =>
              /\ activeInstance' = Head(timers).new
              /\ instanceSwitches' = instanceSwitches + 1
              /\ engine'[Head(timers).old].st # "listening"
              /\ engine'[Head(timers).old].err # "aborted"
              /\ engine[Head(timers).old].st = "listening"
                    => engine'[Head(timers).old].st = "stopping"
              /\ engine'[Head(timers).new] = engine[Head(timers).new]
        /\ activeInstance' # activeInstance => (HandoffTimerFire \/ StartRec)
        /\ \A x \in Inst :
              (engine[x].st = "listening"
                   /\ engine'[x].st \in {"stopping", "failed"}
                   /\ engine'[x].err \in {"none", "aborted"})
                 => \/ StopRec
                    \/ (HandoffTimerFire /\ x = Head(timers).old) ]_vars

\* the first switch is complete: B is active and listening, A was stopped
C5_Witness ==
    /\ isRecording
    /\ activeInstance = "B"
    /\ instanceSwitches = 1
    /\ engine["B"].st = "listening"
    /\ engine["A"].st = "stopping"
    /\ "A" \in retired
    /\ nextHandle = 2

\* C6: a final that the retired instance delivers after the handoff's stop()
\* and before its onend is appended to finalText and submitted to the sink.
C6_TrailingFinalKept ==
    [][ \A x \in retired :
           FreshOf(x) # <<>>
              => /\ Grown(finalText, finalText') = FreshOf(x)
                 /\ Grown(sink, sink') = FreshOf(x) ]_vars

\* C7: an onend of the active instance while recording arms one restart of
\* that instance, due after minRestartDelay, and changes neither
\* activeInstance nor switchCount; the restart callback starts that same
\* instance if recording is still on, and again changes neither.
C7_RestartSameInstance ==
    [][ /\ \A x \in Inst :
              (isRecording /\ x = activeInstance /\ OnEnd(x)) =>
                 /\ Cardinality(PendingFor(timers', "restart", x))
                       = Cardinality(PendingFor(timers, "restart", x)) + 1
                 /\ Len(timers') = Len(timers) + 1
                 /\ \A i \in 1..Len(timers') :
                       timers'[i].kind = "restart"
                          => Delay(timers'[i]) = MinRestartDelay
                 /\ activeInstance' = activeInstance
                 /\ instanceSwitches' = instanceSwitches
        /\ RestartTimerFire =>
              /\ (isRecording /\ engine[Head(timers).old].st = "idle")
                    => engine'[Head(timers).old].st = "listening"
              /\ ~isRecording => engine' = engine
              /\ engine'[Other(Head(timers).old)]
                    = engine[Other(Head(timers).old)]
              /\ activeInstance' = activeInstance
              /\ instanceSwitches' = instanceSwitches ]_vars

\* A ended after an error and was started again by the restart callback
C7_Witness ==
    /\ isRecording
    /\ nextHandle = 2
    /\ engine["B"].sess = 0
    /\ engine["A"].sess = 2
    /\ engine["A"].st = "listening"
    /\ activeInstance = "A"
    /\ instanceSwitches = 0
    /\ timers = <<SwitchTimerRec(1, 1)>>

\* C8: when the instance a pending handoff will make active ends during the
\* overlap, its onend arms a restart of it.
C8_InactiveRestarted ==
    [][ \A x \in Inst :
           (/\ OnEnd(x)
            /\ isRecording
            /\ x # activeInstance
            /\ \E i \in Pending(timers, "handoff") : timers[i].new = x)
              => Cardinality(PendingFor(timers', "restart", x))
                    = Cardinality(PendingFor(timers, "restart", x)) + 1 ]_vars

\* C9, as claimed, with N = QuietSess - 1: after N restarts in a row the next
\* unexpected onend of the instance stops the session and arms no restart.
RestartLimit == QuietSess - 1

C10_PermissionFatal ==
    [][ \A x \in Inst :
           /\ (OnError(x, "not-allowed") /\ isRecording) => ~isRecording'
           /\ (OnEnd(x) /\ engine[x].err = "not-allowed")
                 => /\ ~isRecording'
                    /\ timers' = timers ]_vars

\* C11: clear() empties finalText and sets wordCount to 0 and changes nothing
\* else (isRecording, activeInstance, switchCount, cursors, engine sessions,
\* armed timers), recording or stopped, during an overlap or not; nothing
\* else shortens finalText or lowers wordCount.
C11_ClearFrame ==
    [][ (ClearText \/ Len(finalText') < Len(finalText)
                   \/ wordCount' < wordCount)
           => /\ finalText' = <<>>
              /\ wordCount' = 0
              /\ UNCHANGED <<isRecording, activeInstance, instanceSwitches,
                             switchTimer, lastResultIndex, engine, timers,
                             nextHandle, sink>> ]_vars

\* the text was cleared while recording, after a segment was submitted and
\* a switch was counted, the old instance still flushing
C11_Witness ==
    /\ isRecording
    /\ activeInstance = "B"
    /\ engine["A"].st = "stopping"
    /\ instanceSwitches = 1
    /\ sink # <<>>
    /\ finalText = <<>>
    /\ wordCount = 0

\* the final results at positions i.. of a result list, as segments
RECURSIVE FinalsFrom(_, _, _, _)
FinalsFrom(x, sess, results, i) ==
    IF i > Len(results) THEN <<>>
    ELSE (IF results[i].isFinal
          THEN <<Segment(x, sess, i, results[i])>>
          ELSE <<>>) \o FinalsFrom(x, sess, results, i + 1)

StopRecNoOp ==
    /\ isRecording = FALSE
    /\ ClearInterval(timers, switchTimer) = timers
    /\ created => \A x \in Inst : EngStop(engine[x]) = engine[x]

\* C13: stop() is idempotent: in the state that a stop() leaves, a second
\* stop() changes nothing (isRecording, activeInstance, switchCount,
\* finalText, wordCount, timers, engine sessions); stop() submits nothing.
C13_StopIdempotent ==
    [][ StopRec
           => /\ StopRecNoOp'
              /\ UNCHANGED <<finalText, wordCount, activeInstance,
                             instanceSwitches, sink, lastResultIndex>> ]_vars

\* stop() has run during an overlap: both instances are flushing, the switch
\* timer is cleared, the handoff is still pending
C13_Witness ==
    /\ ~isRecording
    /\ created
    /\ engine["A"].st = "stopping"
    /\ engine["B"].st = "stopping"
    /\ Pending(timers, "switch") = {}
    /\ Pending(timers, "handoff") # {}
    /\ StopRecNoOp

\* C14: start() while isRecording is true is a no-op: activeInstance,
\* switchCount, the armed timers and both engine sessions are unchanged.
C14_StartWhileRecordingNoOp ==
    [][ (StartRec /\ isRecording)
           => UNCHANGED <<activeInstance, instanceSwitches, switchTimer,
                          timers, engine>> ]_vars

\* a callback of a timer runs in this step
TimerFires == SwitchInstances \/ HandoffTimerFire \/ RestartTimerFire

\* C15: after stop() and until the next start(), no callback of a timer has
\* an effect: activeInstance and switchCount do not change and no instance is
\* started or stopped.
C15_StopCancelsTimers ==
    [][ (~isRecording /\ TimerFires)
           => UNCHANGED <<activeInstance, instanceSwitches, engine>> ]_vars

\* C16: at most one switch timer is armed at any time, and it is the one
\* whose handle is in switchTimer.
C16_OneSwitchTimer ==
    /\ Cardinality(Pending(timers, "switch")) <= 1
    /\ \A i \in Pending(timers, "switch") : timers[i].id = switchTimer

\* a switch is in progress: the new instance was started and the handoff is
\* pending, or the handoff has called stop() on the old instance, which has
\* not ended yet
SwitchInProgress ==
    \/ Pending(timers, "handoff") # {}
    \/ retired # {}

\* C17: both instances have an open engine session only while a switch is in
\* progress.
C17_OverlapOnlyInSwitch ==
    (Open(engine["A"]) /\ Open(engine["B"])) => SwitchInProgress

\* C18: stop() calls the engine's stop(), not abort(), on the active
\* instance, and a final that this instance delivers after stop() and before
\* its onend is appended to finalText and submitted to the sink.
C18_StopKeepsTrailing ==
    [][ /\ (StopRec /\ engine[activeInstance].st = "listening")
              => /\ engine'[activeInstance].st = "stopping"
                 /\ engine'[activeInstance].err = "none"
        /\ \A x \in Inst :
              (/\ ~isRecording
               /\ x = activeInstance
               /\ engine[x].st = "stopping"
               /\ FreshOf(x) # <<>>)
                 => /\ Grown(finalText, finalText') = FreshOf(x)
                    /\ Grown(sink, sink') = FreshOf(x) ]_vars

\* the number of whitespace-delimited tokens of a text: its maximal runs of
\* characters other than the space
RECURSIVE Tokens(_)
Tokens(t) ==
    IF t = <<>> THEN 0
    ELSE (IF Head(t) # " " /\ (Len(t) = 1 \/ t[2] = " ") THEN 1 ELSE 0)
         + Tokens(Tail(t))

RECURSIVE TokensOf(_)
TokensOf(segs) ==
    IF segs = <<>> THEN 0
    ELSE Tokens(Head(segs).text) + TokensOf(Tail(segs))

\* C19: appending a final segment with text t adds t to finalText and
\* increases wordCount by the number of whitespace-delimited tokens of t,
\* for every t of Texts (the empty text, leading, trailing and consecutive
\* spaces included).
C19_WordCountIsTokens ==
    [][ \A x \in Inst :
           Grown(finalText, finalText') # <<>>
              => /\ \A k \in 1..Len(Grown(finalText, finalText')) :
                       LET s == Grown(finalText, finalText')[k]
                       IN  s.src[1] = x
                              => s.text
                                   = engine'[x].results[s.src[3] + 1].transcript
                 /\ wordCount'
                       = wordCount + TokensOf(Grown(finalText, finalText'))
      ]_vars

\* the start() of the restart callback that fires next would throw
RestartThrows ==
    /\ RestartTimerFire
    /\ isRecording
    /\ StartThrows(engine[Head(timers).old])

C21_OneHandoffPending ==
    [][ /\ (isRecording /\ SwitchInstances)
              => Pending(timers, "handoff") = {}
        /\ Cardinality(Pending(timers', "handoff")) <= 1 ]_vars

\* C22: while isRecording is true, the active instance has an open engine
\* session or a timer that starts an instance again is pending (a restart
\* of the active instance, or the switch interval).
C22_ActiveKeptRunning ==
    isRecording
       => \/ Open(engine[activeInstance])
          \/ PendingFor(timers, "restart", activeInstance) # {}
          \/ Pending(timers, "switch") # {}

\* C29: each time an instance begins a new engine session (startRec, a
\* restart, or reuse in a later switch) its result cursor is 0.
C29_CursorResetOnStart ==
    [][ \A x \in Inst :
          engine'[x].sess > engine[x].sess => lastResultIndex'[x] = 0 ]_vars

\* C30: a final that instance x delivers in a callback that runs while x is
\* not active is discarded for good: every callback of x sets x's cursor to
\* the length of the delivered list, active or not, and leaves the other
\* cursor alone; a callback of an inactive instance appends nothing; no
\* callback appends a result below the cursor, and the cursor does not go
\* back during a session, so the final is not appended when the engine
\* delivers it again.
C30_InactiveFinalDiscarded ==
    [][ \A x \in Inst :
          (engine'[x].sess = engine[x].sess
             /\ engine'[x].results # engine[x].results
             /\ engine'[x].results # <<>>)
            => /\ lastResultIndex'[x] = Len(engine'[x].results)
               /\ \A y \in Inst \ {x} : lastResultIndex'[y] = lastResultIndex[y]
               /\ x # activeInstance
                     => (sink' = sink /\ finalText' = finalText)
               /\ \A k \in 1..Len(Grown(sink, sink')) :
                     Grown(sink, sink')[k].src[3] >= lastResultIndex[x]
               /\ engine[x].results # <<>>
                     => lastResultIndex'[x] >= lastResultIndex[x] ]_vars

\* B delivered a final during the overlap, became active and delivered it
\* again together with a second final: only the second was appended
C30_Witness ==
    /\ isRecording
    /\ activeInstance = "B"
    /\ instanceSwitches = 1
    /\ Len(engine["B"].results) = 2
    /\ engine["B"].results[1].isFinal
    /\ engine["B"].results[2].isFinal
    /\ lastResultIndex = [A |-> 0, B |-> 2]
    /\ Len(sink) = 1
    /\ sink[1].src = <<"B", 1, 1>>
    /\ finalText = sink

\* C23: after stop() the status display eventually shows 'Stopped', whatever
\* the state of the engine session when stop() is called: while recording is
\* off and the single-instance page still shows 'Listening', the event that
\* sets 'Stopped' is still to come (the session has not ended yet, or a timer
\* is pending).
C23_StoppedAfterStop ==
    (~single.isRecording /\ single.status = "listening")
       => (single.engine # "idle" \/ single.timers # {})

\* C25: the periodic restart of the single-instance handler. While recording
\* is on and the session is running, one periodic timer is armed and
\* isRestarting is clear; when it fires restartCount grows by exactly 1,
\* isRestarting is set and the session is aborted; the onend that follows
\* starts the engine at once, with isRestarting cleared and no timer armed;
\* restartCount never decreases while recording is on; at most one periodic
\* timer is armed at any time.
C25_PeriodicRestartOnce ==
    [][ /\ (single.isRecording /\ single.engine = "listening")
              => /\ ~single.isRestarting
                 /\ \E t \in single.timers :
                       /\ t.kind = "periodic"
                       /\ t.id = single.periodicRestartTimer
        /\ (PeriodicRestart /\ single.isRecording
                             /\ single.engine = "listening")
              => /\ single'.restartCount = single.restartCount + 1
                 /\ single'.isRestarting
                 /\ single'.engine = "ending"
        /\ (SingleOnEnd /\ single.isRecording /\ single.isRestarting)
              => /\ single'.engine = "starting"
                 /\ ~single'.isRestarting
                 /\ single'.timers \subseteq single.timers
                 /\ single'.restartCount = single.restartCount
        /\ (single.isRecording /\ single'.isRecording)
              => single'.restartCount >= single.restartCount
        /\ Cardinality({t \in single'.timers : t.kind = "periodic"}) <= 1
      ]_vars

\* the second periodic restart of a recording has started the engine again
C25_Witness ==
    /\ single.isRecording
    /\ ~single.isRestarting
    /\ single.restartCount = 2
    /\ single.engine = "listening"
    /\ single.status = "listening"
    /\ \E t \in single.timers : t.kind = "periodic"

\* the requests a client has been answered and has not closed yet
Answered == {r \in 1..Len(host.reqs) : host.reqs[r].st = "done"}

\* the request names a text parameter with a value that is not empty
NamesText(url) ==
    \E i \in 1..Len(url.query) :
       url.query[i][1] = "text" /\ url.query[i][2] # ""

\* C24: GET /transcript with a non-empty text parameter invokes the
\* transcript processor exactly once and is answered 200 'OK'; GET
\* /transcript with an empty or missing text parameter is answered 400 and
\* the processor is not invoked.
C24_TranscriptAnswer ==
    \A r \in Answered :
       host.reqs[r].url.path = "/transcript"
          => IF NamesText(host.reqs[r].url)
             THEN /\ host.reqs[r].calls = 1
                  /\ host.reqs[r].code = 200
                  /\ host.reqs[r].body = "OK"
             ELSE /\ host.reqs[r].calls = 0
                  /\ host.reqs[r].code = 400

\* C26: concurrent GET /transcript requests with non-empty text are each
\* answered 200 with the processor called once, and their processing is
\* never interleaved: one request at a time is between its clipboard copy
\* and its paste, the clipboard holds the request's own text when the paste
\* is issued, and what was pasted for a request is its text.
C26_RequestsNotInterleaved ==
    /\ Cardinality({r \in 1..Len(host.reqs) :
                       host.reqs[r].st \in {"copy", "paste"}}) <= 1
    /\ \A r \in 1..Len(host.reqs) :
          /\ host.reqs[r].st = "paste"
                => host.clipboard = TextOf(host.reqs[r].url)
          /\ host.reqs[r].pasted # ""
                => host.reqs[r].pasted = TextOf(host.reqs[r].url)
          /\ (host.reqs[r].st = "done" /\ NamesText(host.reqs[r].url))
                => (host.reqs[r].code = 200 /\ host.reqs[r].calls = 1)

\* the text of the first request was pasted and the second request, with
\* another text, waited for it and is about to paste its own
C26_Witness ==
    /\ Len(host.reqs) = 2
    /\ host.reqs[1].st = "done"
    /\ host.reqs[1].pasted = "a"
    /\ host.reqs[1].code = 200
    /\ host.reqs[2].st = "paste"
    /\ TextOf(host.reqs[2].url) = "b"
    /\ host.clipboard = "b"

\* C27: a failure while a request is processed is contained: every request
\* the server has handled has an answer, the clipboard or keyboard failure
\* included, is_running stays true, and GET /status is answered 200
\* afterwards.
C27_FailureContained ==
    /\ host.is_running
    /\ \A r \in Answered :
          /\ host.reqs[r].code # 0
          /\ host.reqs[r].url = Bare("/status") => host.reqs[r].code = 200

\* after the processing of a transcript failed (answered all the same), a
\* status request was answered 200
C27_Witness ==
    /\ host.faulted
    /\ host.is_running
    /\ Len(host.reqs) = 2
    /\ host.reqs[1].st = "done"
    /\ host.reqs[1].calls = 1
    /\ ~host.reqs[1].kept
    /\ host.reqs[1].code # 0
    /\ host.reqs[2].st = "done"
    /\ host.reqs[2].url = Bare("/status")
    /\ host.reqs[2].code = 200

\* C28: while the application's recording state is off no page has
\* isRecording true and no text is being pasted, and at most one page is
\* recording.
C28_ToggleReachesPages ==
    /\ ~host.is_recording.handler
          => /\ \A p \in 1..Len(host.pages) : ~host.pages[p].isRecording
             /\ \A r \in 1..Len(host.reqs) : host.reqs[r].st # "paste"
    /\ Cardinality({p \in 1..Len(host.pages) :
                       host.pages[p].isRecording}) <= 1


----------------------------------------------------------------------------
\* C31: the onend of the instance a handoff has stopped arms no restart of
\* that instance; the instance is kept, and a later switch starts that same
\* instance again, calling its start() only when its previous session has
\* ended.
C31_RetiredReused ==
    [][ /\ \A x \in retired :
              OnEnd(x) =>
                 Cardinality(PendingFor(timers', "restart", x))
                    <= Cardinality(PendingFor(timers, "restart", x))
        /\ created => created'
        /\ (isRecording /\ SwitchInstances) =>
              /\ engine[Other(activeInstance)].st = "idle"
              /\ engine'[Other(activeInstance)].st = "listening"
              /\ engine'[Other(activeInstance)].sess
                    = engine[Other(activeInstance)].sess + 1 ]_vars


----------------------------------------------------------------------------
\* The handoff about to fire was armed before the present recording began:
\* the only switch interval pending is the one startRec holds, and it was
\* armed later than the handoff (or none is pending, so that no switch has
\* fired since recording began).
StaleHandoff ==
    /\ isRecording
    /\ timers # <<>>
    /\ Head(timers).kind = "handoff"
    /\ \A j \in Pending(timers, "switch") :
          timers[j].id = switchTimer /\ Head(timers).at < timers[j].at

\* The restart about to fire was armed before the present recording began:
\* it is a restart of B, which only an onend of B as the active instance
\* arms, while no switch has fired since recording began.
StaleRestart ==
    /\ isRecording
    /\ timers # <<>>
    /\ Head(timers).kind = "restart"
    /\ Head(timers).old = "B"
    /\ Pending(timers, "switch") = {}
    /\ activeInstance = "A"
    /\ instanceSwitches = 0

\* C32: a handoff or restart timer armed in one recording session has no
\* effect in a later one: when it fires after stop() and start(),
\* activeInstance and switchCount stay as start() set them and no instance
\* is stopped or started.
C32_StaleTimersInert ==
    [][ /\ (StaleHandoff /\ HandoffTimerFire) =>
              /\ activeInstance' = activeInstance
              /\ instanceSwitches' = instanceSwitches
              /\ engine' = engine
        /\ (StaleRestart /\ RestartTimerFire) => engine' = engine ]_vars


----------------------------------------------------------------------------
\* C33: switchCount never decreases, whatever the operation, and wordCount
\* decreases only by clearText.
C33_MetricsMonotonic ==
    [][ /\ instanceSwitches' >= instanceSwitches
        /\ wordCount' < wordCount => ClearText ]_vars


----------------------------------------------------------------------------
\* C35: when the switch timer fires while recording and start() of the new
\* instance throws, no handoff timer is armed, activeInstance and switchCount
\* keep their values, no instance is stopped or started, and the switch
\* interval stays armed.
C35_FailedSwitchAbandoned ==
    [][ (/\ isRecording
         /\ SwitchInstances
         /\ engine[Other(activeInstance)].st # "idle") =>
           /\ Cardinality(Pending(timers', "handoff"))
                 = Cardinality(Pending(timers, "handoff"))
           /\ Cardinality(Pending(timers', "restart"))
                 = Cardinality(Pending(timers, "restart"))
           /\ activeInstance' = activeInstance
           /\ instanceSwitches' = instanceSwitches
           /\ engine' = engine
           /\ isRecording'
           /\ \E j \in Pending(timers', "switch") :
                 timers'[j].id = Head(timers).id ]_vars

\* B, active since the handoff, has ended and awaits its restart; the switch
\* timer has fired before that restart, while A was still stopping, and is
\* armed again behind it
C35_Witness ==
    /\ isRecording
    /\ activeInstance = "B"
    /\ instanceSwitches = 1
    /\ engine["A"].st = "stopping"
    /\ engine["A"].sess = 1
    /\ engine["B"].st = "idle"
    /\ timers = <<RestartTimerRec("B", 1), SwitchTimerRec(1, 2)>>


----------------------------------------------------------------------------
\* a callback of x: the engine has changed the result list of x's session
Delivered(x) ==
    /\ engine'[x].sess = engine[x].sess
    /\ engine'[x].results # engine[x].results
    /\ engine'[x].results # <<>>

\* the results of this callback that are not final: those at or after the
\* lowest position the engine has changed
OpenResults(x) ==
    {j \in 1..Len(engine'[x].results) :
        /\ ~engine'[x].results[j].isFinal
        /\ \E i \in 1..j : \/ i > Len(engine[x].results)
                           \/ engine[x].results[i] # engine'[x].results[i]}

\* C34: an onresult callback of an instance that is not active leaves the
\* transcript element as it is; a callback of the active instance displays
\* the buffer followed by the last result of the callback that is not final,
\* or by nothing when it has none, whatever interim text was displayed
\* before, and adds no result that is not final to the buffer.
C34_InterimReplaced ==
    [][ \A x \in Inst :
           Delivered(x) =>
              /\ x # activeInstance => shown' = shown
              /\ x = activeInstance =>
                    /\ shown'.final = finalText'
                    /\ shown'.interim =
                          (IF OpenResults(x) = {} THEN <<>>
                           ELSE engine'[x].results[
                                   CHOOSE j \in OpenResults(x) :
                                      \A k \in OpenResults(x) : k <= j
                                ].transcript)
              /\ \A k \in 1..Len(Grown(finalText, finalText')) :
                    LET g == Grown(finalText, finalText')[k]
                    IN  /\ g.src[1] = x
                        /\ engine'[x].results[g.src[3] + 1].isFinal ]_vars

\* A, active, has displayed its interim result; after the handoff to B that
\* result became final in a callback of A, which left the element as it was
C34_Witness ==
    /\ budget.shown
    /\ isRecording
    /\ activeInstance = "B"
    /\ engine["A"].st = "stopping"
    /\ Len(engine["A"].results) = 1
    /\ engine["A"].results[1].isFinal
    /\ lastResultIndex["A"] = 1
    /\ shown.interim = engine["A"].results[1].transcript
    /\ shown.final = <<>>
    /\ finalText = <<>>


----------------------------------------------------------------------------
\* C37: when pyperclip.copy or the paste keystroke raises while a /transcript
\* request is processed, the request is answered 500 'Failed to process
\* transcript' and its text is not added to accumulated_text.
C37_FailureAnswered500 ==
    [][ \A r \in 1..Len(host.reqs) :
           (Copy(r, FALSE) \/ Paste(r, FALSE)) =>
              /\ host'.reqs[r].code = 500
              /\ host'.reqs[r].body = "Failed to process transcript"
              /\ ~host'.reqs[r].kept ]_vars


----------------------------------------------------------------------------
\* C36: the wrapped function is called at most `attempts` times
\* (max_attempts, or 3 when none is given); a call that returns ends the
\* loop with its result; after the failed attempt k (from 0) the wrapper
\* waits retry_delay * 2^k, except after the last; when every attempt has
\* failed the fallback's result is returned if there is a fallback and the
\* last exception is raised otherwise; an exception that is not listed is
\* propagated by the call that raised it, with no wait and no further call.
C36_RetryBounded ==
    LET r == host.retry
        attempts == IF r.max_attempts = 0 THEN 3 ELSE r.max_attempts
        retry_delay == IF r.delay = 0 THEN 1 ELSE r.delay
        waits == IF r.attempt = attempts THEN attempts - 1 ELSE r.attempt
    IN  /\ r.calls <= attempts
        /\ r.attempt <= attempts
        /\ r.result = "running" => r.calls = r.attempt /\ r.calls < attempts
        /\ r.result \in {"returned", "propagated"} =>
              r.calls = r.attempt + 1
        /\ r.result \in {"fallback", "raised"} <=>
              r.attempt = attempts
        /\ r.result = "fallback" => r.fallback
        /\ r.result = "raised" => ~r.fallback /\ r.last_error = "listed"
        /\ Len(r.slept) = waits
        /\ \A k \in 1..Len(r.slept) : r.slept[k] = retry_delay * 2^(k - 1)

\* no arguments but the exceptions: three calls have raised a listed
\* exception, with waits of 1 and 2 between them, and the last is raised
C36_Witness ==
    /\ host.retry.max_attempts = 0
    /\ host.retry.delay = 0
    /\ ~host.retry.fallback
    /\ host.retry.calls = 3
    /\ host.retry.slept = <<1, 2>>
    /\ host.retry.result = "raised"
    /\ ~host.is_running


----------------------------------------------------------------------------
\* C38: when no call of toggle_recording is in progress, is_recording of the
\* SpeechHandlerV2, of the SpeechServer and of the TrayIcon are equal, and
\* equal to the initial value (off) inverted once per call made.
C38_TogglesAgree ==
    (\A t \in Threads : host.threads[t].pc = "idle") =>
       /\ host.is_recording.server = host.is_recording.handler
       /\ host.is_recording.tray = host.is_recording.handler
       /\ host.is_recording.handler = (host.toggles % 2 = 1)


----------------------------------------------------------------------------
====
